---- MODULE Spec2Model ----
(***************************************************************************)
(* Model of the JWT verification subsystem of @enhancer/auth-client:       *)
(* PublicKeyCache (src/jwt/public-key-cache.ts) and JwtVerifier            *)
(* (src/jwt/verifier.ts), run on a single-threaded event loop.  An action  *)
(* is one uninterrupted run of code between two suspension points          *)
(* (awaits).                                                               *)
(***************************************************************************)
EXTENDS Integers, Sequences, FiniteSets, TLC

VARIABLES publicKey, fetchPromise, fetch, call, keySrc, returned, racing, token,
          config, raw, accounts, now, fetchedAt, req

vars == <<publicKey, fetchPromise, fetch, call, keySrc, returned, racing, token,
          config, raw, accounts, now, fetchedAt, req>>

\* what the key cache and the verifier read and never write: the token under
\* verification, the client's configuration and service calls, the clock,
\* the request a middleware handles
env == <<token, config, raw, accounts, now, req>>

(* ------------------------------ bounds --------------------------------- *)

\* number of getPublicKey / refreshPublicKey / verify calls in a behaviour
MaxCalls == 3

\* failed HTTP attempts in a behaviour, over all fetch sequences
MaxFailures == 3

\* number of calls in a behaviour of the verification specification
MaxVerifyCalls == 2

\* number of calls in a behaviour of the format specification
MaxFormatCalls == 2

\* number of calls in a behaviour of the retry specification
MaxRetryCalls == 2

\* length of the enumerated token strings
MaxLen == 5

\* number of calls in a behaviour of the error specification
MaxErrorCalls == 2

\* how long the clock runs, in milliseconds
MaxTime == 3

\* number of getConnectedAccounts() calls of a client
MaxAccountCalls == 2

(* ----------------------------- constants ------------------------------- *)

maxRetries == 3

baseDelayMs == 1000

Null == "null"

NoFetch == 0

Keys == {"k1", "k2"}

CallIds == 1..MaxCalls

\* a call that starts a fetch starts at most one, so fetch ids fit call ids
FetchIds == 1..MaxCalls

(* --------------------------- HTTP transport ---------------------------- *)

\* What one GET /auth/public-key can come back with.  ok: a 2xx response,
\* whose body carries the publicKey field `body` ("" is an empty string,
\* "missing" no field at all).  Otherwise err is the error class the axios
\* interceptor rejects with (transformAxiosError).
HttpOutcomes ==
  [ok : {TRUE}, body : Keys \cup {"", "missing"}, err : {"none"}]
  \cup [ok : {FALSE}, body : {"missing"},
        err : {"timeout", "network", "http401", "http429", "http500"}]

\* transformAxiosError: the class of the error an attempt rejects with
transformAxiosError(err) ==
  CASE err = "timeout" -> "NetworkError"
    [] err = "network" -> "NetworkError"
    [] err = "http401" -> "InvalidTokenError"
    [] err = "http429" -> "RateLimitError"
    [] OTHER -> "AuthError"

\* line 82: if (!response.data?.publicKey) throw ...
AttemptAcceptsAlways(o) == o.ok

AttemptAccepts(o) == o.ok /\ o.body # "" /\ o.body # "missing"

\* the message of the error caught at line 91
AttemptError(o) == IF o.ok THEN "missing publicKey field" ELSE o.err

\* line 94: if (attempt < maxRetries)
MayRetry(attempt) == attempt < maxRetries

\* line 96: const delayMs = 1000 * 2 ** (attempt - 1)
RECURSIVE Pow2(_)
Pow2(n) == IF n = 0 THEN 1 ELSE 2 * Pow2(n - 1)

delayMsFlat(attempt) == baseDelayMs

delayMs(attempt) == baseDelayMs * Pow2(attempt - 1)

(* ---------------------------- configuration --------------------------- *)

\* JavaScript values of the configuration object
Undefined == [typ |-> "undefined"]

StrV(s) == [typ |-> "string", str |-> s]

NumV(n) == [typ |-> "number", num |-> n]

Infinity == [typ |-> "number", inf |-> TRUE]

BoolV(b) == [typ |-> "boolean", bool |-> b]

ConfigFields ==
  {"authBackendUrl", "authFrontendUrl", "serviceId", "serviceSecret", "timeout",
   "publicKeyCacheTTL", "enableDebugLogs"}

Issue(path, message) == [path |-> path, message |-> message]

\* the issue zod reports for a value of the wrong type
TypeIssue(path, v, typ) ==
  IF v.typ = "undefined" THEN {Issue(path, "Required")}
  ELSE IF v.typ # typ THEN {Issue(path, "Expected " \o typ \o ", received " \o v.typ)}
  ELSE {}

\* z.string().url(): the strings that parse as a URL
IsUrl(str) == str \in {"http://localhost:8080", "https://auth.enhancer.at", "ftp://example.com"}

\* url.startsWith('http://') || url.startsWith('https://')
StartsWithHttp(str) == str \in {"http://localhost:8080", "https://auth.enhancer.at"}

\* lines 8-22: z.string().url({message}).refine(startsWith..., message)
urlSchema(path, v) ==
  IF v.typ # "string" THEN TypeIssue(path, v, "string")
  ELSE (IF IsUrl(v.str) THEN {}
        ELSE {Issue(path, path \o " must be a valid HTTP/HTTPS URL")})
       \cup
       (IF StartsWithHttp(v.str) THEN {}
        ELSE {Issue(path, path \o " must start with http:// or https://")})

\* line 24: z.string().min(1, 'serviceId is required')
serviceIdSchema(v) ==
  IF v.typ # "string" THEN TypeIssue("serviceId", v, "string")
  ELSE IF v.str = "" THEN {Issue("serviceId", "serviceId is required")}
  ELSE {}

\* line 26: z.string().optional()
serviceSecretSchema(v) ==
  IF v.typ = "undefined" THEN {} ELSE TypeIssue("serviceSecret", v, "string")

\* lines 28 and 30: z.number().positive().optional(), before .default()
positiveSchema(path, v) ==
  IF v.typ = "undefined" THEN {}
  ELSE IF v.typ # "number" THEN TypeIssue(path, v, "number")
  ELSE IF "inf" \in DOMAIN v \/ v.num > 0 THEN {}
  ELSE {Issue(path, "Number must be greater than 0")}

\* line 32: z.boolean().optional(), before .default()
booleanSchema(path, v) ==
  IF v.typ = "undefined" THEN {} ELSE TypeIssue(path, v, "boolean")

WithDefaultAlways(v, d) == d

\* .default(d)
WithDefault(v, d) == IF v.typ = "undefined" THEN d ELSE v

\* lines 7-33: configSchema.parse(config): the issues found and, if there
\* are none, the parsed object
configSchema(c) ==
  [issues |-> urlSchema("authBackendUrl", c.authBackendUrl)
                \cup urlSchema("authFrontendUrl", c.authFrontendUrl)
                \cup serviceIdSchema(c.serviceId)
                \cup serviceSecretSchema(c.serviceSecret)
                \cup positiveSchema("timeout", c.timeout)
                \cup positiveSchema("publicKeyCacheTTL", c.publicKeyCacheTTL)
                \cup booleanSchema("enableDebugLogs", c.enableDebugLogs),
   value |-> [authBackendUrl |-> c.authBackendUrl,
              authFrontendUrl |-> c.authFrontendUrl,
              serviceId |-> c.serviceId,
              serviceSecret |-> c.serviceSecret,
              timeout |-> WithDefault(c.timeout, NumV(10000)),
              publicKeyCacheTTL |-> WithDefault(c.publicKeyCacheTTL, Infinity),
              enableDebugLogs |-> WithDefault(c.enableDebugLogs, BoolV(FALSE))]]

\* lines 57-67: the validated configuration, or the Error thrown with the
\* issues ("path: message") joined into its message
validateConfig(c) ==
  LET parsed == configSchema(c) IN
  IF parsed.issues = {}
    THEN [ok |-> TRUE, value |-> parsed.value, issues |-> {}]
    ELSE [ok |-> FALSE, value |-> Undefined, issues |-> parsed.issues]

\* the configuration of the tests (tests/unit/config.test.ts), for the
\* service the tokens are issued to
validConfig ==
  [authBackendUrl |-> StrV("http://localhost:8080"),
   authFrontendUrl |-> StrV("https://auth.enhancer.at"),
   serviceId |-> StrV("svc"),
   serviceSecret |-> StrV("secret_abc123"),
   timeout |-> Undefined,
   publicKeyCacheTTL |-> Undefined,
   enableDebugLogs |-> Undefined]

\* if (this.enableDebugLogs)
DebugLogs == config.enableDebugLogs = BoolV(TRUE)

(* ------------------------------- tokens -------------------------------- *)

serviceId == "svc"

Alphabet == {"a", "."}

\* what a JWS compact serialization decodes to, as far as jose.jwtVerify and
\* the field checks of verify() look at it
NoClaims ==
  [jws |-> FALSE, alg |-> "none", signer |-> "nobody", aud |-> "missing",
   exp |-> "missing", sub |-> "missing", username |-> "missing",
   profilePicture |-> "missing", iss |-> "missing", iat |-> "missing",
   scope |-> "missing"]

\* the payload of createTestToken (tests/mocks/fixtures.ts), signed by key k
GoodClaims(k) ==
  [jws |-> TRUE, alg |-> "RS256", signer |-> k, aud |-> serviceId,
   exp |-> "future", sub |-> "string", username |-> "string",
   profilePicture |-> "string", iss |-> "string", iat |-> "number",
   scope |-> "strings"]

NoToken == [typ |-> "undefined", text |-> <<>>, claims |-> NoClaims]

Str(t) == [typ |-> "string", text |-> t, claims |-> NoClaims]

Jws(cl) == [typ |-> "string", text |-> <<"a", ".", "a", ".", "a">>, claims |-> cl]

NotAJwt == Str(<<"n", "o", "t", ".", "a", ".", "j", "w", "t">>)

EmptyString == Str(<<>>)

\* every string over Alphabet of length at most MaxLen, "not.a.jwt", and the
\* values that are no strings
FormatTokens ==
  {Str(t) : t \in UNION {[1..k -> Alphabet] : k \in 0..MaxLen}}
  \cup {NotAJwt, NoToken,
        [typ |-> "number", text |-> <<>>, claims |-> NoClaims],
        [typ |-> "object", text |-> <<>>, claims |-> NoClaims]}

\* signed tokens: the valid one and tokens that differ from it in one or two
\* respects
JwsTokens ==
  LET g == GoodClaims("k1") IN
  {Jws(g), Jws(GoodClaims("k2")),
   Jws([g EXCEPT !.alg = "HS256"]),
   Jws([g EXCEPT !.signer = "other"]),
   Jws([g EXCEPT !.signer = "other", !.exp = "past"]),
   Jws([g EXCEPT !.aud = "other"]),
   Jws([g EXCEPT !.aud = "array"]),
   Jws([g EXCEPT !.aud = "missing"]),
   Jws([g EXCEPT !.exp = "past"]),
   Jws([g EXCEPT !.exp = "past", !.aud = "other"]),
   Jws([g EXCEPT !.exp = "missing"]),
   Jws([g EXCEPT !.exp = "string"]),
   Jws([g EXCEPT !.sub = "missing"]),
   Jws([g EXCEPT !.username = "number"]),
   Jws([g EXCEPT !.profilePicture = "missing"]),
   Jws([g EXCEPT !.iss = "missing"]),
   Jws([g EXCEPT !.iat = "missing"]),
   Jws([g EXCEPT !.iat = "string"]),
   Jws([g EXCEPT !.scope = "missing"]),
   Jws([g EXCEPT !.scope = "string"]),
   Jws([g EXCEPT !.scope = "mixed"]),
   Jws([g EXCEPT !.iss = "other"]),
   Jws([g EXCEPT !.iss = "number"]),
   Jws([g EXCEPT !.sub = "number"]),
   Jws([g EXCEPT !.username = "missing"]),
   Jws([g EXCEPT !.profilePicture = "number"]),
   Jws([g EXCEPT !.aud = "number"]),
   Jws([g EXCEPT !.exp = "past", !.sub = "missing"]),
   Jws([g EXCEPT !.exp = "past", !.iat = "string"]),
   Jws([g EXCEPT !.alg = "none", !.signer = "nobody"]),
   Jws([g EXCEPT !.alg = "HS256", !.exp = "past"]),
   Jws([g EXCEPT !.alg = "HS256", !.signer = "other"]),
   Jws([g EXCEPT !.exp = "beyondDate"]),
   Jws([g EXCEPT !.sub = "other"]),
   Jws([g EXCEPT !.username = "other"]),
   Jws([g EXCEPT !.profilePicture = "other"])}

\* token.split('.')
RECURSIVE Split(_)
Split(s) ==
  IF s = <<>> THEN << <<>> >>
  ELSE LET rest == Split(Tail(s)) IN
       IF Head(s) = "." THEN << <<>> >> \o rest
       ELSE << <<Head(s)>> \o Head(rest) >> \o Tail(rest)

isValidJWTFormatLoose(text) == Len(Split(text)) = 3

isValidJWTFormat(text) ==
  LET parts == Split(text) IN
  Len(parts) = 3 /\ \A i \in 1..Len(parts) : Len(parts[i]) > 0

\* !token: undefined, "" and the number 0 are falsy
Falsy(tok) == tok.typ = "undefined" \/ (tok.typ = "string" /\ tok.text = <<>>)

\* verify(), lines 36-43: the message of the InvalidTokenError thrown before
\* any key is asked for, "none" if the token passes
PreCheck(tok) ==
  IF Falsy(tok) \/ tok.typ # "string" THEN "Token must be a non-empty string"
  ELSE IF ~isValidJWTFormat(tok.text) THEN "Invalid JWT format"
  ELSE "none"

(* ------------------------- verification pipeline ----------------------- *)

Thrown(cls, msg) == [cls |-> cls, msg |-> msg]

\* the words of an error message that the classification looks for
MsgWords(msg) ==
  CASE msg = "missing required \"aud\" claim" -> {"missing", "required", "aud", "claim"}
    [] msg = "unexpected \"aud\" claim value" -> {"unexpected", "aud", "claim", "value"}
    [] msg = "\"iat\" claim must be a number" -> {"iat", "claim", "must", "be", "a", "number"}
    [] msg = "\"exp\" claim must be a number" -> {"exp", "claim", "must", "be", "a", "number"}
    [] OTHER -> {}

\* error.message.includes(word)
Mentions(msg, word) == word \in MsgWords(msg)

\* typeof payload.x, Array.isArray(payload.scope), as verify() tests them
IsString(v) == v \in {"string", serviceId, "other"}

IsNumber(v) == v \in {"number", "future", "past", "beyondDate"}

IsArray(v) == v \in {"strings", "mixed"}

\* the algorithms option of jwtVerify: a fixed list, whatever the token says
algorithms == {"RS256"}

AlgAllowedFromToken(alg) == TRUE

\* the library's test of the header's alg against the algorithms option
AlgAllowed(alg) == alg \in algorithms

joseVerifyExpiryFirst(tok, key) ==
  LET cl == tok.claims IN
  IF ~cl.jws THEN Thrown("JWSInvalid", "Invalid Compact JWS")
  ELSE IF cl.exp = "past"
    THEN Thrown("JWTExpired", "\"exp\" claim timestamp check failed")
  ELSE IF ~AlgAllowed(cl.alg) \/ cl.signer # key
    THEN Thrown("JWSSignatureVerificationFailed", "signature verification failed")
  ELSE Thrown("ok", "")

\* jose.importSPKI + jose.jwtVerify(token, key, {algorithms: ['RS256'],
\* audience: serviceId}): the error thrown, class "ok" if none.  The order is
\* that of the library: JWS syntax, algorithm, signature, then the claims
\* (presence of aud, audience, types of iat and exp, expiry).
joseVerify(tok, key) ==
  LET cl == tok.claims IN
  IF ~cl.jws THEN Thrown("JWSInvalid", "Invalid Compact JWS")
  ELSE IF ~AlgAllowed(cl.alg)
    THEN Thrown("JOSEAlgNotAllowed", "\"alg\" (Algorithm) Header Parameter value not allowed")
  ELSE IF cl.signer # key
    THEN Thrown("JWSSignatureVerificationFailed", "signature verification failed")
  ELSE IF cl.aud = "missing"
    THEN Thrown("JWTClaimValidationFailed", "missing required \"aud\" claim")
  ELSE IF cl.aud \notin {serviceId, "array"}
    THEN Thrown("JWTClaimValidationFailed", "unexpected \"aud\" claim value")
  ELSE IF cl.iat # "missing" /\ ~IsNumber(cl.iat)
    THEN Thrown("JWTClaimValidationFailed", "\"iat\" claim must be a number")
  ELSE IF cl.exp # "missing" /\ ~IsNumber(cl.exp)
    THEN Thrown("JWTClaimValidationFailed", "\"exp\" claim must be a number")
  ELSE IF cl.exp = "past"
    THEN Thrown("JWTExpired", "\"exp\" claim timestamp check failed")
  ELSE Thrown("ok", "")

\* lines 63-74: the required fields of the payload
FieldsOkNoScope(cl) ==
  /\ IsString(cl.sub) /\ IsString(cl.username) /\ IsString(cl.profilePicture)
  /\ IsString(cl.iss) /\ IsNumber(cl.exp) /\ IsNumber(cl.iat)
  /\ IsString(cl.aud)

FieldsOkNoAud(cl) ==
  /\ IsString(cl.sub) /\ IsString(cl.username) /\ IsString(cl.profilePicture)
  /\ IsString(cl.iss) /\ IsNumber(cl.exp) /\ IsNumber(cl.iat)
  /\ IsArray(cl.scope)

FieldsOk(cl) ==
  /\ IsString(cl.sub) /\ IsString(cl.username) /\ IsString(cl.profilePicture)
  /\ IsString(cl.iss) /\ IsNumber(cl.exp) /\ IsNumber(cl.iat)
  /\ IsString(cl.aud) /\ IsArray(cl.scope)

JoseErrors ==
  {"JWSInvalid", "JOSEAlgNotAllowed", "JWSSignatureVerificationFailed",
   "JWTClaimValidationFailed", "JWTExpired"}

Result(tag, key, err) == [tag |-> tag, key |-> key, err |-> err]

DecodedFields ==
  {"sub", "username", "profilePicture", "iss", "exp", "iat", "aud", "scope"}

\* lines 76-85: the DecodedToken built from the payload, field by field
DecodedToken(payload) ==
  [sub |-> payload.sub, username |-> payload.username,
   profilePicture |-> payload.profilePicture, iss |-> payload.iss,
   exp |-> payload.exp, iat |-> payload.iat, aud |-> payload.aud,
   scope |-> payload.scope]

\* line 95: return decoded
Decoded(key, payload) ==
  [tag |-> "decoded", key |-> key, err |-> "none", decoded |-> DecodedToken(payload)]

\* line 90: new Date(decoded.exp * 1000).toISOString() throws a RangeError
\* when exp * 1000 is beyond the range of Date (8.64e15 ms)
ToISOStringThrows(exp) == exp = "beyondDate"

\* an error whose message ends with the text of the error it was made from:
\* `...: ${error.message}` (the message) or `...: ${error}` (name and message)
Wrapping(tag, key, err, text) == [tag |-> tag, key |-> key, err |-> err, wraps |-> text]

\* lines 96-126: the catch block of verify()
ClassifyRethrow(e, key) == Result(e.cls, key, e.msg)

Classify(e, key) ==
  IF e.cls = "JWTExpired" THEN Result("TokenExpiredError", key, "Token has expired")
  ELSE IF e.cls = "JWTClaimValidationFailed" THEN
    IF Mentions(e.msg, "audience")
      THEN Result("InvalidTokenError", key, "Token audience mismatch (expected: svc)")
    ELSE IF Mentions(e.msg, "issuer")
      THEN Result("InvalidTokenError", key, "Token issuer mismatch")
    ELSE Wrapping("InvalidTokenError", key, "Token claim validation failed",
                  [msg |-> e.msg])
  ELSE IF e.cls = "JWSSignatureVerificationFailed"
    THEN Result("InvalidTokenError", key, "Invalid token signature")
  ELSE IF e.cls \in JoseErrors
    THEN Wrapping("InvalidTokenError", key, "Token verification failed", [msg |-> e.msg])
  ELSE IF e.cls \in {"InvalidTokenError", "TokenExpiredError"}
    THEN Result(e.cls, key, e.msg)
  ELSE Wrapping("InvalidTokenError", key, "Unexpected error during token verification", e)

\* lines 45-95: verify() from the return of getPublicKey() on; `got` is what
\* getPublicKey() returned or threw
VerifyAfterKey(tok, got) ==
  IF got.tag # "key" THEN Classify(Thrown(got.tag, got.err), Null)
  ELSE LET e == joseVerify(tok, got.key) IN
       IF e.cls # "ok" THEN Classify(e, got.key)
       ELSE IF ~FieldsOk(tok.claims)
         THEN Classify(Thrown("InvalidTokenError", "Token payload missing required fields"),
                       got.key)
       ELSE IF DebugLogs /\ ToISOStringThrows(tok.claims.exp)
         THEN Classify(Thrown("RangeError", "Invalid time value"), got.key)
       ELSE Decoded(got.key, tok.claims)

\* what a call of the given kind makes of the outcome of getPublicKey()
Outcome(kind, tok, got) == IF kind = "verify" THEN VerifyAfterKey(tok, got) ELSE got

(* ------------------------------- state --------------------------------- *)

\* a fetch sequence: one run of fetchPublicKey, i.e. one promise; superseded
\* records that refreshPublicKey() was called while the sequence was in flight
NoFetchRec ==
  [st |-> "none", attempt |-> 0, value |-> Null, lastError |-> "none",
   log |-> <<>>, delays |-> <<>>, cont |-> FALSE, superseded |-> FALSE]

NoResult == [tag |-> "none", key |-> Null, err |-> "none"]

NoCall ==
  [kind |-> "none", pc |-> "idle", f |-> NoFetch, res |-> NoResult,
   started |-> FALSE]

Running(f) == fetch[f].st \in {"request", "backoff"}

SettledOnlyResolved(f) == fetch[f].st = "resolved"

Settled(f) == fetch[f].st \in {"resolved", "rejected"}

InFlight == {f \in FetchIds : Running(f)}

NumCalls == Cardinality({c \in CallIds : call[c].kind # "none"})

NumFetches == Cardinality({f \in FetchIds : fetch[f].st # "none"})

\* failed attempts of fetch sequence f so far
Failures(f) == Cardinality({i \in DOMAIN fetch[f].log : fetch[f].log[i] # "ok"})

RECURSIVE SumFailures(_)
SumFailures(n) == IF n = 0 THEN 0 ELSE Failures(n) + SumFailures(n - 1)

TotalFailures == SumFailures(MaxCalls)

\* refreshPublicKey calls made so far
NumRefresh == Cardinality({c \in CallIds : call[c].kind = "refresh"})

\* the event loop runs every continuation that is ready (the microtasks)
\* before it delivers the next HTTP response or timer
Drained ==
  \A c \in CallIds : call[c].pc \in {"awaitOwn", "joined"} => ~Settled(call[c].f)

\* no getConnectedAccounts() call has been made
NoAccounts ==
  [pc |-> "idle", n |-> 0, url |-> <<>>, Authorization |-> <<>>,
   res |-> [tag |-> "none"]]

\* no request is being handled by a middleware
NoRequest == [pc |-> "none"]

\* the state after construction; token is the token the verify() calls of
\* the behaviour are given, reqs the requests a middleware may receive
InitFor(toks, raws, reqs) ==
  /\ token \in toks
  /\ raw \in raws
  /\ config = validateConfig(raw).value
  /\ accounts = NoAccounts
  /\ now = 0
  /\ fetchedAt = 0
  /\ req \in reqs
  /\ publicKey = Null
  /\ fetchPromise = NoFetch
  /\ fetch = [f \in FetchIds |-> NoFetchRec]
  /\ call = [c \in CallIds |-> NoCall]
  /\ keySrc = NoFetch
  /\ returned = {}
  /\ racing = 0

InitOf(toks, raws) == InitFor(toks, raws, {NoRequest})

InitWith(toks) == InitOf(toks, {validConfig})

Init == InitWith({NoToken})

(* ------------------------------ operations ----------------------------- *)

\* line 26: if (this.publicKey)
CacheHit(pk) == pk # Null

\* line 34: if (this.fetchPromise)
FetchInProgressNever(fp) == FALSE

FetchInProgress(fp) == fp # NoFetch

\* line 42: this.fetchPromise = <the promise of the new fetch sequence>
StartMarkerUnset(newF) == NoFetch

StartMarker(newF) == newF

\* the call record at entry, with what the call finds
Entered(kind) == [NoCall EXCEPT !.kind = kind]

\* call c was made after every refreshPublicKey() call so far
Current(c) == \A d \in CallIds : d > c => call[d].kind # "refresh"

\* the keys getPublicKey() has returned, since the last refreshPublicKey()
\* call, to calls made since then, and the refreshPublicKey() calls made
\* while the marker was set
Bookkeeping(kind, keys) ==
  /\ returned' = IF kind = "refresh" THEN {} ELSE returned \cup keys
  /\ racing' = IF kind = "refresh" /\ fetchPromise # NoFetch THEN racing + 1 ELSE racing

\* getPublicKey(), lines 24-45, up to its first suspension, for call c of
\* the given kind; pk and fp are this.publicKey and this.fetchPromise as the
\* body finds them
GetSem(c, kind, pk, fp) ==
  LET base == Entered(kind)
      newF == NumFetches + 1 IN
  IF CacheHit(pk) THEN
    /\ call' = [call EXCEPT ![c] =
                  [base EXCEPT !.pc = "done", !.f = keySrc,
                               !.res = Outcome(kind, token, Result("key", pk, "none"))]]
    /\ publicKey' = pk
    /\ fetchPromise' = fp
    /\ Bookkeeping(kind, {pk})
    /\ UNCHANGED <<fetch, keySrc, env, fetchedAt>>
  ELSE IF FetchInProgress(fp) THEN
    /\ call' = [call EXCEPT ![c] = [base EXCEPT !.pc = "joined", !.f = fp]]
    /\ publicKey' = pk
    /\ fetchPromise' = fp
    /\ keySrc' = NoFetch
    /\ Bookkeeping(kind, {})
    /\ UNCHANGED <<fetch, env, fetchedAt>>
  ELSE
    \* line 42: this.fetchPromise = this.fetchPublicKey(), which runs up to
    \* the first httpClient.get
    /\ newF \in FetchIds
    /\ fetch' = [f \in FetchIds |->
                   IF f = newF THEN [NoFetchRec EXCEPT !.st = "request", !.attempt = 1]
                   ELSE IF kind = "refresh" /\ Running(f)
                     THEN [fetch[f] EXCEPT !.superseded = TRUE]
                   ELSE fetch[f]]
    /\ fetchPromise' = StartMarker(newF)
    /\ publicKey' = pk
    /\ keySrc' = NoFetch
    /\ Bookkeeping(kind, {})
    /\ UNCHANGED <<env, fetchedAt>>
    /\ call' = [call EXCEPT ![c] =
                  [base EXCEPT !.pc = "awaitOwn", !.f = newF, !.started = TRUE]]

\* PublicKeyCache.getPublicKey()
getPublicKey(c) ==
  /\ c = NumCalls + 1
  /\ GetSem(c, "get", publicKey, fetchPromise)

\* PublicKeyCache.refreshPublicKey(): clears both fields, then getPublicKey()
RefreshKeepsState(c) ==
  /\ c = NumCalls + 1
  /\ GetSem(c, "refresh", publicKey, fetchPromise)

refreshPublicKey(c) ==
  /\ c = NumCalls + 1
  /\ GetSem(c, "refresh", Null, NoFetch)

verifyRefreshing(c) ==
  /\ c = NumCalls + 1
  /\ GetSem(c, "verify", Null, NoFetch)

\* JwtVerifier.verify(token), up to its first suspension
verify(c) ==
  /\ c = NumCalls + 1
  /\ IF PreCheck(token) # "none"
       THEN /\ call' = [call EXCEPT ![c] =
                          [Entered("verify") EXCEPT
                             !.pc = "done",
                             !.res = Result("InvalidTokenError", Null, PreCheck(token))]]
            /\ UNCHANGED <<publicKey, fetchPromise, fetch, keySrc, returned, racing, env, fetchedAt>>
       ELSE GetSem(c, "verify", publicKey, fetchPromise)

\* the for loop of fetchPublicKey moves on: attempt++, then the loop test
NextAttemptTwo(f, rec) ==
  IF rec.attempt + 1 <= 2
    THEN [rec EXCEPT !.st = "request", !.attempt = rec.attempt + 1]
    ELSE [rec EXCEPT !.st = "rejected", !.attempt = rec.attempt + 1]

NextAttempt(f, rec) ==
  IF rec.attempt + 1 <= maxRetries
    THEN [rec EXCEPT !.st = "request", !.attempt = rec.attempt + 1]
    ELSE [rec EXCEPT !.st = "rejected", !.attempt = rec.attempt + 1]

\* fetchPublicKey(), lines 80-101: the httpClient.get of the current attempt
\* comes back with outcome o
AttemptReturns(f, o) ==
  /\ Drained
  /\ fetch[f].st = "request"
  /\ fetch' = [fetch EXCEPT ![f] =
       IF AttemptAccepts(o)
         THEN [@ EXCEPT !.st = "resolved", !.value = o.body, !.lastError = "none",
                        !.log = Append(@, "ok")]
       ELSE LET failed == [@ EXCEPT !.lastError = AttemptError(o),
                                    !.log = Append(@, AttemptError(o))] IN
            IF MayRetry(@.attempt)
              THEN [failed EXCEPT !.st = "backoff",
                                  !.delays = Append(@, delayMs(failed.attempt))]
              ELSE NextAttempt(f, failed)]
  /\ UNCHANGED <<publicKey, fetchPromise, call, keySrc, returned, racing, env, fetchedAt>>

\* line 100: the backoff timer fires
TimerFires(f) ==
  /\ Drained
  /\ fetch[f].st = "backoff"
  /\ fetch' = [fetch EXCEPT ![f] = NextAttempt(f, @)]
  /\ UNCHANGED <<publicKey, fetchPromise, call, keySrc, returned, racing, env, fetchedAt>>

\* line 48: finally { this.fetchPromise = null }
FinallyKeepsMarker(fp) == fp

Finally(fp) == NoFetch

\* the outcome of a settled fetch sequence, as its promise delivers it
\* lines 105-107: new NetworkError(`Failed to fetch public key after
\* ${maxRetries} attempts: ${lastError?.message}`)
NetworkError(attempts, last) ==
  [tag |-> "NetworkError", key |-> Null, err |-> last, attempts |-> attempts]

\* the class of the error caught at line 91
ErrorClass(e) ==
  IF e = "missing publicKey field" THEN "Error" ELSE transformAxiosError(e)

FetchOutcomeRaw(f) ==
  IF fetch[f].st = "resolved" THEN Result("key", fetch[f].value, "none")
  ELSE Result(ErrorClass(fetch[f].lastError), Null, fetch[f].lastError)

FetchOutcomeFirstError(f) ==
  IF fetch[f].st = "resolved" THEN Result("key", fetch[f].value, "none")
  ELSE NetworkError(maxRetries, fetch[f].log[1])

FetchOutcomeLatest(f) ==
  LET g == IF Settled(NumFetches) THEN NumFetches ELSE f IN
  IF fetch[g].st = "resolved" THEN Result("key", fetch[g].value, "none")
  ELSE NetworkError(maxRetries, fetch[g].lastError)

FetchOutcome(f) ==
  IF fetch[f].st = "resolved" THEN Result("key", fetch[f].value, "none")
  ELSE NetworkError(maxRetries, fetch[f].lastError)

\* getPublicKey(), lines 45-49: the initiator resumes from await
InitiatorContinues(c) ==
  /\ call[c].pc = "awaitOwn"
  /\ Settled(call[c].f)
  /\ LET f == call[c].f
         got == FetchOutcome(f) IN
     /\ publicKey' = IF got.tag = "key" THEN got.key ELSE publicKey
     /\ keySrc' = IF got.tag = "key" THEN f ELSE keySrc
     /\ fetchPromise' = Finally(fetchPromise)
     /\ fetch' = [fetch EXCEPT ![f].cont = TRUE]
     /\ returned' = IF got.tag = "key" /\ Current(c)
                       THEN returned \cup {got.key} ELSE returned
     /\ fetchedAt' = IF got.tag = "key" THEN now ELSE fetchedAt
     /\ UNCHANGED <<racing, env>>
     /\ call' = [call EXCEPT ![c].pc = "done",
                             ![c].res = Outcome(call[c].kind, token, got)]

\* line 38: a caller that returned the pending promise gets its outcome,
\* after the initiator's continuation (registered first) has run
JoinedCompletes(c) ==
  /\ call[c].pc = "joined"
  /\ Settled(call[c].f)
  /\ fetch[call[c].f].cont
  /\ LET got == FetchOutcome(call[c].f) IN
     /\ returned' = IF got.tag = "key" /\ Current(c)
                       THEN returned \cup {got.key} ELSE returned
     /\ call' = [call EXCEPT ![c].pc = "done",
                             ![c].res = Outcome(call[c].kind, token, got)]
  /\ UNCHANGED <<publicKey, fetchPromise, fetch, keySrc, racing, env, fetchedAt>>

\* the transport of the concurrency specification: the key endpoint answers
\* with a key or the request times out
PlainOutcomes == {o \in HttpOutcomes : AttemptAccepts(o) \/ o.err = "timeout"}

\* the environment fails at most MaxFailures attempts
Fails(o) == ~AttemptAccepts(o) => TotalFailures < MaxFailures

\* PublicKeyCache under concurrent getPublicKey() and refreshPublicKey()
Next ==
  \/ \E c \in CallIds : getPublicKey(c)
  \/ \E c \in CallIds : refreshPublicKey(c)
  \/ \E f \in FetchIds, o \in PlainOutcomes : Fails(o) /\ AttemptReturns(f, o)
  \/ \E f \in FetchIds : TimerFires(f)
  \/ \E c \in CallIds : InitiatorContinues(c)
  \/ \E c \in CallIds : JoinedCompletes(c)

Spec == Init /\ [][Next]_vars

\* JwtVerifier.verify() of a signed token over the cache
\* the environment of the verification and error specifications: only the
\* first fetch sequence meets failed attempts
FailsFirst(f, o) == ~AttemptAccepts(o) => f = 1

NextVerify ==
  \/ \E c \in 1..MaxVerifyCalls : verify(c)
  \/ \E c \in 1..MaxVerifyCalls : refreshPublicKey(c)
  \/ \E f \in FetchIds, o \in PlainOutcomes : FailsFirst(f, o) /\ AttemptReturns(f, o)
  \/ \E f \in FetchIds : TimerFires(f)
  \/ \E c \in CallIds : InitiatorContinues(c)
  \/ \E c \in CallIds : JoinedCompletes(c)

VerifyTokens == JwsTokens \cup {EmptyString, NotAJwt, Str(<<"a", ".", "a">>)}

\* tokens whose verification is also run with debug logging on
DebugTokens ==
  {Jws(GoodClaims("k1")), Jws([GoodClaims("k1") EXCEPT !.exp = "beyondDate"]),
   Jws([GoodClaims("k1") EXCEPT !.exp = "past"])}

InitVerify ==
  \/ InitWith(VerifyTokens)
  \/ InitOf(DebugTokens, {[validConfig EXCEPT !.enableDebugLogs = BoolV(TRUE)]})

SpecVerify == InitVerify /\ [][NextVerify]_vars

\* the transport of the format specification: the key endpoint answers
AcceptedOutcomes == {o \in HttpOutcomes : AttemptAccepts(o)}

\* JwtVerifier.verify() of an arbitrary string or non-string over the cache
NextFormat ==
  \/ \E c \in 1..MaxFormatCalls : verify(c)
  \/ \E c \in 1..MaxFormatCalls : getPublicKey(c)
  \/ \E c \in 1..MaxFormatCalls : refreshPublicKey(c)
  \/ \E f \in FetchIds, o \in AcceptedOutcomes : AttemptReturns(f, o)
  \/ \E c \in CallIds : InitiatorContinues(c)
  \/ \E c \in CallIds : JoinedCompletes(c)

SpecFormat == InitWith(FormatTokens) /\ [][NextFormat]_vars

\* the transport of the retry specification: a key, a 2xx response with an
\* empty or without a publicKey field, a timeout (a NetworkError) or a 401
\* (an InvalidTokenError of the interceptor)
RetryOutcomes ==
  {o \in HttpOutcomes : o.body \in {"k1", "", "missing"}
                          /\ o.err \in {"none", "timeout", "http401"}}

\* the retry loop of fetchPublicKey under getPublicKey() and refreshPublicKey()
NextRetry ==
  \/ \E c \in 1..MaxRetryCalls : getPublicKey(c)
  \/ \E c \in 1..MaxRetryCalls : refreshPublicKey(c)
  \/ \E f \in FetchIds, o \in RetryOutcomes : Fails(o) /\ AttemptReturns(f, o)
  \/ \E f \in FetchIds : TimerFires(f)
  \/ \E c \in CallIds : InitiatorContinues(c)
  \/ \E c \in CallIds : JoinedCompletes(c)

SpecRetry == Init /\ [][NextRetry]_vars

\* getPublicKey() and refreshPublicKey() over every outcome of the transport
NextErrors ==
  \/ \E c \in 1..MaxErrorCalls : getPublicKey(c)
  \/ \E c \in 1..MaxErrorCalls : refreshPublicKey(c)
  \/ \E f \in FetchIds, o \in HttpOutcomes : FailsFirst(f, o) /\ AttemptReturns(f, o)
  \/ \E f \in FetchIds : TimerFires(f)
  \/ \E c \in CallIds : InitiatorContinues(c)
  \/ \E c \in CallIds : JoinedCompletes(c)

SpecErrors == Init /\ [][NextErrors]_vars

(* ------------------------------ properties ----------------------------- *)

Calls == {c \in CallIds : call[c].kind # "none"}

\* the calls made in the step, by kind
Called(c, kind) == call[c].kind = "none" /\ call'[c].kind = kind

\* HTTP requests fetch sequence f has made
Requests(f) == Len(fetch[f].log)

\* C1: on an empty cache and with no refreshPublicKey() call, however many
\* getPublicKey() calls are issued before the first fetch resolves, exactly
\* one fetch sequence runs (at most 3 requests) and every caller waits on it.
C1_SingleFlight ==
  (NumRefresh = 0 /\ NumCalls >= 1 /\ ~Settled(1)) =>
    /\ Running(1)
    /\ NumFetches = 1
    /\ Requests(1) <= 3
    /\ \A c \in Calls : call[c].f = 1 /\ call[c].pc \in {"awaitOwn", "joined"}

C1_Witness ==
  /\ NumRefresh = 0 /\ NumCalls = MaxCalls /\ Running(1) /\ NumFetches = 1
  /\ Cardinality({c \in Calls : call[c].pc = "joined"}) = MaxCalls - 1

\* C2 (as stated): in every reachable state at most one fetch sequence is in
\* flight, whatever the interleaving of getPublicKey(), refreshPublicKey()
\* and fetch completions.
C2_AtMostOneInFlight == Cardinality(InFlight) <= 1

\* C2 (amended): at most one fetch sequence is in flight, plus one for every
\* refreshPublicKey() call made while the pending-fetch marker was set.
C2_OneInFlightPerRacingRefresh == Cardinality(InFlight) <= 1 + racing

C2_Witness ==
  /\ racing = 0 /\ NumRefresh >= 1 /\ NumCalls = MaxCalls
  /\ Cardinality(InFlight) = 1
  /\ \E c \in Calls : call[c].pc = "joined"

\* C3: after a refreshPublicKey() call the cache only holds a key obtained
\* by a fetch that was started at or after that refresh: the completion of
\* an earlier fetch does not write its key into the cache.
C3_NoStaleRepopulation == publicKey # Null => ~fetch[keySrc].superseded

\* C4: once a getPublicKey() call has returned key K, every getPublicKey()
\* call made before the next refreshPublicKey() call is answered with K and
\* starts no fetch.
C4_CacheCoherence ==
  [][\A c \in CallIds :
       (Called(c, "get") /\ returned # {}) =>
         /\ call'[c].pc = "done"
         /\ call'[c].res.tag = "key"
         /\ returned = {call'[c].res.key}
         /\ fetch' = fetch]_vars

\* the fetch sequences that are outstanding: started, not yet delivered to
\* their initiator, and not left behind by a refreshPublicKey() call
Outstanding ==
  {f \in FetchIds : fetch[f].st # "none" /\ ~fetch[f].cont /\ ~fetch[f].superseded}

\* C5: a getPublicKey() caller that calls while a fetch is outstanding waits
\* on that fetch and so receives its outcome: it neither starts a fetch of
\* its own nor is answered from elsewhere.
C5_JoinsOutstandingFetch ==
  [][\A c \in CallIds :
       (Called(c, "get") /\ Outstanding # {}) =>
         /\ call'[c].pc = "joined"
         /\ call'[c].f \in Outstanding]_vars

\* the verify() calls that passed the pre-check and whose getPublicKey()
\* has come back
VerifyDone == {c \in Calls : call[c].kind = "verify" /\ call[c].pc = "done"
                               /\ call[c].f # NoFetch}

\* C6: when getPublicKey() fails with NetworkFailure during verify() of a
\* well-formed token, verify() fails with NetworkError, not with
\* InvalidToken or TokenExpired.
C6_NetworkFailurePropagates ==
  \A c \in VerifyDone :
    fetch[call[c].f].st = "rejected" => call[c].res.tag = "NetworkError"

\* the positions of the dots of a string
Dots(text) == {i \in 1..Len(text) : text[i] = "."}

\* three non-empty segments: two dots, none first, last or next to a dot
WellFormed(tok) ==
  /\ tok.typ = "string"
  /\ Cardinality(Dots(tok.text)) = 2
  /\ \A i \in Dots(tok.text) : i # 1 /\ i # Len(tok.text) /\ i + 1 \notin Dots(tok.text)

\* the conditions under which verify() may return a DecodedToken, key being
\* the key getPublicKey() returned during the call
Acceptable(tok, key) ==
  /\ WellFormed(tok)
  /\ tok.claims.jws /\ tok.claims.alg = "RS256" /\ tok.claims.signer = key
  /\ tok.claims.aud = serviceId
  /\ tok.claims.exp \in {"future", "beyondDate"}
  /\ \A x \in {tok.claims.sub, tok.claims.username, tok.claims.profilePicture,
              tok.claims.iss} : x \in {"string", "other"}
  /\ tok.claims.iat = "number"
  /\ tok.claims.scope \in {"strings", "mixed"}

C8_PreCheckRejects ==
  [][\A c \in CallIds :
       (Called(c, "verify") /\ ~WellFormed(token)) =>
         /\ call'[c].pc = "done"
         /\ call'[c].res.tag = "InvalidTokenError"
         /\ call'[c].f = NoFetch /\ ~call'[c].started
         /\ UNCHANGED <<publicKey, fetchPromise, fetch>>]_vars

C8_Witness ==
  /\ ~WellFormed(token) /\ Len(token.text) = MaxLen
  /\ publicKey # Null
  /\ \E c \in Calls : /\ call[c].kind = "verify" /\ call[c].pc = "done"
                      /\ call[c].res.err = "Invalid JWT format"
                      /\ \E d \in Calls : d < c /\ call[d].res.tag = "key"

\* C9 (as stated): verify("not.a.jwt") and verify("") fail with InvalidToken
\* without any getPublicKey() call or HTTP request.
C9_NoKeyFetchForGarbage ==
  token \in {NotAJwt, EmptyString} =>
    \A c \in Calls :
      call[c].kind = "verify" =>
        /\ call[c].pc = "done" /\ call[c].res.tag = "InvalidTokenError"
        /\ call[c].f = NoFetch /\ ~call[c].started

\* C9 (amended): verify("") fails with InvalidToken without any
\* getPublicKey() call; verify("not.a.jwt") passes the pre-check, calls
\* getPublicKey() and fails with InvalidToken when that call has come back.
C9_GarbageFailsInvalidToken ==
  \A c \in Calls :
    call[c].kind = "verify" =>
      /\ token = EmptyString =>
           /\ call[c].pc = "done" /\ call[c].res.tag = "InvalidTokenError"
           /\ call[c].f = NoFetch /\ ~call[c].started
      /\ token = NotAJwt =>
           /\ call[c].f # NoFetch
           /\ call[c].pc = "done" => call[c].res.tag = "InvalidTokenError"

C9_Witness ==
  /\ token = NotAJwt
  /\ \E c \in Calls : /\ call[c].kind = "verify" /\ call[c].started
                      /\ call[c].pc = "done"
                      /\ call[c].res.tag = "InvalidTokenError"
                      /\ call[c].res.key \in Keys

\* C10: a fetch sequence makes at most 3 requests and stops at the first
\* successful one, succeeding with that attempt's key; it fails with
\* NetworkFailure only after exactly 3 failed attempts, a timeout being one
\* of them; a caller learns nothing before the sequence has settled.
C10_ThreeAttempts ==
  \A f \in FetchIds :
    LET log == fetch[f].log IN
    /\ Len(log) <= 3
    /\ \A i \in DOMAIN log : log[i] = "ok" => i = Len(log)
    /\ fetch[f].st = "resolved" <=> (log # <<>> /\ log[Len(log)] = "ok")
    /\ fetch[f].st = "resolved" => fetch[f].value \in Keys
    /\ fetch[f].st = "rejected" <=> (Len(log) = 3 /\ \A i \in 1..3 : log[i] # "ok")
    /\ \A c \in Calls :
         (call[c].f = f /\ call[c].kind # "verify") =>
           /\ call[c].pc = "done" => Settled(f)
           /\ call[c].res.tag = "key" =>
                fetch[f].st = "resolved" /\ call[c].res.key = fetch[f].value
           /\ call[c].res.tag = "NetworkError" => fetch[f].st = "rejected"
           /\ (call[c].pc = "done" /\ fetch[f].st = "rejected") =>
                call[c].res.tag = "NetworkError"
           /\ call[c].res.tag \in {"none", "key", "NetworkError"}

C10_Witness ==
  \E f \in FetchIds :
    /\ fetch[f].log = <<"timeout", "http401", "ok">>
    /\ transformAxiosError(fetch[f].log[2]) = "InvalidTokenError"
    /\ fetch[f].delays = <<1000, 2000>>
    /\ fetch[f].st = "resolved"
    /\ \E c \in Calls : call[c].f = f /\ call[c].pc = "done" /\ call[c].res.tag = "key"

\* C11: within a fetch sequence, attempt n+1 starts only when the wait that
\* followed failed attempt n is over, and that wait is 1000 ms after attempt
\* 1 and 2000 ms after attempt 2, always the same; the third failed attempt
\* ends the sequence with NetworkFailure at once, with no further wait.
C11_BackoffSchedule ==
  [][\A f \in FetchIds :
       LET old == fetch[f]
           new == fetch'[f] IN
       /\ (old.st = "request" /\ new.st = "backoff") =>
             /\ old.attempt \in {1, 2}
             /\ new.attempt = old.attempt
             /\ new.delays = Append(old.delays, IF old.attempt = 1 THEN 1000 ELSE 2000)
       /\ (old.st # "none" /\ new.attempt # old.attempt /\ new.st = "request") =>
             /\ old.st = "backoff"
             /\ new.attempt = old.attempt + 1
             /\ Len(old.delays) = old.attempt
             /\ new.delays = old.delays
       /\ (old.st # "rejected" /\ new.st = "rejected") =>
             /\ old.st = "request" /\ old.attempt = 3
             /\ old.delays = <<1000, 2000>> /\ new.delays = old.delays
             /\ FetchOutcome(f)'.tag = "NetworkError"]_vars

C11_Witness ==
  \E f \in FetchIds :
    /\ fetch[f].st = "rejected" /\ Len(fetch[f].log) = 3
    /\ fetch[f].delays = <<1000, 2000>>
    /\ \E c \in Calls : call[c].f = f /\ call[c].res.tag = "NetworkError"

\* the step in which call c, waiting in state pc, gets the outcome of a
\* fetch sequence that failed
FailsNow(c, pc) ==
  /\ call[c].kind \in {"get", "refresh"}
  /\ call[c].pc = pc /\ call'[c].pc = "done"
  /\ fetch[call[c].f].st = "rejected"

\* C12 (as stated): when a fetch sequence has failed after its retries, the
\* pending-fetch marker is clear, no key is cached, and the initiator and
\* every caller that joined the fetch fail with NetworkFailure.
C12_FailureLeavesNoKey ==
  [][\A c \in CallIds :
       /\ FailsNow(c, "awaitOwn") =>
             /\ fetchPromise' = NoFetch
             /\ publicKey' = Null
             /\ call'[c].res.tag = "NetworkError"
       /\ FailsNow(c, "joined") => call'[c].res.tag = "NetworkError"]_vars

\* C12 (amended): when a fetch sequence has failed after its retries, the
\* initiator's continuation clears the pending-fetch marker and writes
\* nothing into the cache, so that no key is cached unless a
\* refreshPublicKey() call made during a pending fetch brought one; the
\* initiator and every caller that joined the fetch fail with NetworkFailure.
C12_FailureClearsMarker ==
  [][\A c \in CallIds :
       /\ FailsNow(c, "awaitOwn") =>
             /\ fetchPromise' = NoFetch
             /\ publicKey' = publicKey
             /\ racing = 0 => publicKey' = Null
             /\ call'[c].res.tag = "NetworkError"
       /\ FailsNow(c, "joined") =>
             /\ call'[c].res.tag = "NetworkError"
             /\ \E d \in Calls : /\ call[d].f = call[c].f /\ call[d].started
                                  /\ call[d].res = call'[c].res]_vars

C12_Witness ==
  \E f \in FetchIds :
    /\ fetch[f].st = "rejected" /\ fetchPromise = NoFetch /\ publicKey = Null
    /\ Cardinality({c \in Calls : call[c].f = f /\ call[c].pc = "done"
                                   /\ call[c].res.tag = "NetworkError"}) = MaxCalls

\* C13: refreshPublicKey() starts a new fetch sequence in every state (a
\* key cached, the cache empty, a fetch pending): it discards the cached
\* key, waits on the sequence it started and never answers from the cache.
C13_RefreshAlwaysFetches ==
  [][\A c \in CallIds :
       Called(c, "refresh") =>
         LET f == call'[c].f IN
         /\ call'[c].pc = "awaitOwn" /\ call'[c].started
         /\ f \in FetchIds
         /\ fetch[f].st = "none"
         /\ fetch'[f].st = "request" /\ fetch'[f].attempt = 1 /\ fetch'[f].log = <<>>
         /\ publicKey' = Null
         /\ fetchPromise' = f]_vars

\* a refresh made while a key was cached, one while a fetch was pending
C13_Witness ==
  /\ NumFetches = 3 /\ racing = 1
  /\ fetch[1].st = "resolved" /\ fetch[1].cont /\ ~fetch[1].superseded
  /\ call[1].res.tag = "key"
  /\ call[2].kind = "refresh" /\ call[3].kind = "refresh"
  /\ Running(2) /\ fetch[2].superseded /\ Running(3)
  /\ publicKey = Null

\* the attempts of fetch sequence f whose 2xx response carried no key
NoKeyAttempts(f) ==
  {i \in DOMAIN fetch[f].log : fetch[f].log[i] = "missing publicKey field"}

\* C14: a 2xx response whose publicKey field is missing or empty is a failed
\* attempt like a transport error: it uses up one of the 3 attempts, is
\* followed by the backoff wait when it is attempt 1 or 2, never resolves
\* the sequence, and the cache never holds an empty or absent key.
C14_MissingKeyIsFailure ==
  /\ publicKey \in Keys \cup {Null}
  /\ \A f \in FetchIds :
       /\ fetch[f].st = "resolved" => fetch[f].value \in Keys
       /\ fetch[f].st # "resolved" => fetch[f].value = Null
       /\ \A i \in NoKeyAttempts(f) :
            /\ i <= 3
            /\ fetch[f].st = "resolved" => i < Len(fetch[f].log)
            /\ fetch[f].st = "request" => fetch[f].attempt > i
            /\ i < 3 => Len(fetch[f].delays) >= i /\ fetch[f].delays[i] = delayMs(i)
            /\ i = 3 => fetch[f].st = "rejected" /\ Len(fetch[f].delays) = 2
  /\ \A c \in Calls : call[c].res.tag = "key" => call[c].res.key \in Keys

C14_Witness ==
  \E f \in FetchIds :
    /\ NoKeyAttempts(f) = {1, 2, 3}
    /\ fetch[f].st = "rejected" /\ publicKey = Null
    /\ \E c \in Calls : call[c].f = f /\ call[c].res.tag = "NetworkError"

\* the getPublicKey() and refreshPublicKey() calls that have come back
KeyCallsDone == {c \in Calls : call[c].kind \in {"get", "refresh"} /\ call[c].pc = "done"}

\* C15: getPublicKey() and refreshPublicKey() fail only with NetworkError:
\* whatever the attempts of the sequence failed with (timeout, connection
\* error, 401 as InvalidTokenError, 429 as RateLimitError, another status as
\* AuthError, a body without key), the caller gets the key or a NetworkError.
C15_OnlyNetworkError ==
  \A c \in KeyCallsDone :
    /\ call[c].res.tag \in {"key", "NetworkError"}
    /\ call[c].res.tag = "NetworkError" <=> fetch[call[c].f].st = "rejected"
    /\ call[c].res.tag = "key" <=> fetch[call[c].f].st = "resolved"

C15_Witness ==
  \E c \in KeyCallsDone :
    /\ call[c].res.tag = "NetworkError"
    /\ fetch[call[c].f].log = <<"http401", "http429", "http500">>
    /\ \A i \in 1..3 : ErrorClass(fetch[call[c].f].log[i]) # "NetworkError"

\* C16: the NetworkError of a failed fetch sequence reports the number of
\* attempts made (3) and the message of the error of the last, third,
\* attempt, not of an earlier one.
C16_ReportsLastError ==
  \A c \in KeyCallsDone :
    call[c].res.tag = "NetworkError" =>
      LET log == fetch[call[c].f].log IN
      /\ call[c].res.attempts = 3
      /\ call[c].res.attempts = Len(log)
      /\ call[c].res.err = log[3]

C16_Witness ==
  \E c \in KeyCallsDone :
    /\ call[c].res.tag = "NetworkError"
    /\ fetch[call[c].f].log = <<"timeout", "http500", "missing publicKey field">>
    /\ call[c].res.err = "missing publicKey field"

\* the verify() calls that have come back and whose getPublicKey() returned
\* the key the token is signed with (RS256)
VerifiedUnderKey ==
  {c \in VerifyDone : /\ fetch[call[c].f].st = "resolved"
                      /\ token.claims.jws /\ token.claims.alg = "RS256"
                      /\ token.claims.signer = fetch[call[c].f].value}

\* C17 (as stated): verify() of a token signed with the valid key whose exp
\* is in the past fails with TokenExpired, never with InvalidToken or success.
C17_ExpiredIsTokenExpired ==
  \A c \in VerifiedUnderKey :
    token.claims.exp = "past" => call[c].res.tag = "TokenExpiredError"

\* C17 (amended): verify() of a token signed with the valid key whose exp is
\* in the past, whose aud is or contains the serviceId and whose iat, if
\* present, is a number, fails with TokenExpired; an expired token that
\* fails one of these two checks fails with InvalidToken; none succeeds.
C17_ExpiredAfterClaimChecks ==
  \A c \in VerifiedUnderKey :
    token.claims.exp = "past" =>
      IF token.claims.aud \in {serviceId, "array"} /\ token.claims.iat \in {"number", "missing"}
        THEN call[c].res.tag = "TokenExpiredError"
        ELSE call[c].res.tag = "InvalidTokenError"

C17_Witness ==
  /\ token = Jws([GoodClaims("k1") EXCEPT !.exp = "past"])
  /\ \E c \in VerifiedUnderKey : /\ call[c].res.tag = "TokenExpiredError"
                                  /\ call[c].res.err = "Token has expired"

\* the verify() calls of a token that is validly signed, not expired and
\* well typed, by the value of its aud and iss claims
ValidExcept(aud, iss) ==
  {c \in VerifiedUnderKey :
     token.claims = [GoodClaims(token.claims.signer) EXCEPT !.aud = aud, !.iss = iss]}

\* the one message of verify() that names the configured serviceId
NamesExpectedAudience(msg) == msg = "Token audience mismatch (expected: svc)"

\* C18: verify() of a validly signed, non-expired token whose aud differs
\* from the configured serviceId fails with InvalidToken, with a message
\* that names the expected audience.
C18_AudienceMismatchNamed ==
  \A c \in ValidExcept("other", "string") :
    /\ call[c].res.tag = "InvalidTokenError"
    /\ NamesExpectedAudience(call[c].res.err)

\* C19: verify() of a validly signed, non-expired token with matching
\* audience whose iss is not the issuer of the auth backend fails with
\* InvalidToken.
C19_IssuerMismatchRejected ==
  \A c \in ValidExcept(serviceId, "other") : call[c].res.tag = "InvalidTokenError"

\* presence and type of the eight fields, as the claim lists them
HasString(v) == v \in {"string", "other", serviceId}

HasNumber(v) == v \in {"number", "future", "past", "beyondDate"}

HasSequence(v) == v \in {"strings", "mixed"}

Complete(cl) ==
  /\ \A v \in {cl.sub, cl.username, cl.profilePicture, cl.iss, cl.aud} : HasString(v)
  /\ HasNumber(cl.exp) /\ HasNumber(cl.iat)
  /\ HasSequence(cl.scope)

C21_MixedScopeRejected ==
  \A c \in VerifiedUnderKey :
    token.claims = [GoodClaims(token.claims.signer) EXCEPT !.scope = "mixed"]
      => call[c].res.tag = "InvalidTokenError"

\* C22: verify() of a signed token whose header names an algorithm other
\* than RS256 fails with InvalidToken whatever its signature and claims, and
\* verify() returns a DecodedToken only for a token whose algorithm is RS256.
C22_OnlyRS256 ==
  /\ \A c \in VerifyDone :
       (token.claims.jws /\ token.claims.alg # "RS256")
         => call[c].res.tag = "InvalidTokenError"
  /\ \A c \in Calls :
       (call[c].kind = "verify" /\ call[c].res.tag = "decoded")
         => token.claims.alg = "RS256"

C22_Witness ==
  /\ token = Jws([GoodClaims("k1") EXCEPT !.alg = "HS256"])
  /\ \E c \in VerifyDone :
       /\ fetch[call[c].f].st = "resolved" /\ fetch[call[c].f].value = "k1"
       /\ call[c].res.tag = "InvalidTokenError"
       /\ call[c].res.err = "Token verification failed"

\* C23: verify() of a token signed with the served key whose payload has
\* the eight fields well typed, aud equal to serviceId and exp in the future
\* returns a DecodedToken whose eight fields equal those of the payload.
C23_RoundTrip ==
  \A c \in VerifiedUnderKey :
    (/\ Complete(token.claims) /\ token.claims.scope = "strings"
     /\ token.claims.aud = serviceId
     /\ token.claims.exp \in {"future", "beyondDate"})
      => /\ call[c].res.tag = "decoded"
         /\ DOMAIN call[c].res.decoded = DecodedFields
         /\ \A x \in DecodedFields : call[c].res.decoded[x] = token.claims[x]

\* the errors verify() meets that its catch block has no case for: the
\* NetworkError of a failed key fetch and the RangeError of the debug log
Unclassified(c) ==
  IF fetch[call[c].f].st = "rejected"
    THEN {Thrown("NetworkError", fetch[call[c].f].lastError)}
  ELSE IF /\ joseVerify(token, fetch[call[c].f].value).cls = "ok"
          /\ FieldsOk(token.claims)
          /\ DebugLogs /\ ToISOStringThrows(token.claims.exp)
    THEN {Thrown("RangeError", "Invalid time value")}
  ELSE {}

\* C24: every failure of verify() is an InvalidTokenError, a
\* TokenExpiredError or a NetworkError, and an error raised during
\* verification that the catch block has no case for is reported as an
\* InvalidTokenError that carries the text of the original error.
C24_FailuresAreNamed ==
  \A c \in Calls :
    (call[c].kind = "verify" /\ call[c].pc = "done" /\ call[c].res.tag # "decoded") =>
      /\ call[c].res.tag \in {"InvalidTokenError", "TokenExpiredError", "NetworkError"}
      /\ call[c].f # NoFetch =>
           \A e \in Unclassified(c) :
             /\ call[c].res.tag = "InvalidTokenError"
             /\ call[c].res.err = "Unexpected error during token verification"
             /\ "wraps" \in DOMAIN call[c].res
             /\ call[c].res.wraps = e

C24_Witness ==
  \E c \in VerifyDone :
    /\ fetch[call[c].f].st = "rejected"
    /\ call[c].res.tag = "InvalidTokenError"
    /\ call[c].res.wraps = Thrown("NetworkError", "timeout")

\* tokens whose verification succeeds, fails with TokenExpired and fails with
\* InvalidToken (signature, algorithm, fields, format)
PassTokens ==
  {Jws(GoodClaims("k1")), Jws(GoodClaims("k2")),
   Jws([GoodClaims("k1") EXCEPT !.exp = "past"]),
   Jws([GoodClaims("k1") EXCEPT !.signer = "other"]),
   Jws([GoodClaims("k1") EXCEPT !.scope = "missing"]),
   NotAJwt}

\* JwtVerifier.verify over the cache, step by step
SpecPass == InitWith(PassTokens) /\ [][NextVerify]_vars

\* C25: a verify() call makes one pass.  When it starts it leaves the cached
\* key as it is, starts at most one fetch sequence, none if a key is cached
\* or a fetch is pending, and disturbs no running fetch; when it comes back
\* it has used the one getPublicKey() outcome it waited for, starts nothing,
\* and the cache holds what getPublicKey() left there, whatever the result
\* of the verification; a finished call does nothing more.
C25_SinglePass ==
  [][\A c \in CallIds :
       /\ Called(c, "verify") =>
            /\ publicKey' = publicKey
            /\ NumFetches' <= NumFetches + 1
            /\ (publicKey # Null \/ fetchPromise # NoFetch) =>
                  fetch' = fetch /\ fetchPromise' = fetchPromise
            /\ \A f \in FetchIds : fetch[f].st # "none" => fetch'[f] = fetch[f]
       /\ (call[c].kind = "verify" /\ call[c].pc # "done" /\ call'[c].pc = "done") =>
            /\ call'[c].f = call[c].f
            /\ \A f \in FetchIds : /\ fetch'[f].st = fetch[f].st
                                   /\ fetch'[f].attempt = fetch[f].attempt
            /\ publicKey' = IF call[c].pc = "awaitOwn" /\ fetch[call[c].f].st = "resolved"
                               THEN fetch[call[c].f].value ELSE publicKey
       /\ (call[c].kind = "verify" /\ call[c].pc = "done") => call'[c] = call[c]
    ]_vars

C25_Witness ==
  \E c \in VerifyDone :
    /\ ~call[c].started
    /\ call[c].res.tag \in {"InvalidTokenError", "TokenExpiredError"}
    /\ call[c].res.key # Null
    /\ publicKey = call[c].res.key

(* ------------------------------ cache TTL ------------------------------ *)

\* time passes: one millisecond
Tick ==
  /\ now < MaxTime
  /\ now' = now + 1
  /\ UNCHANGED <<publicKey, fetchPromise, fetch, call, keySrc, returned, racing,
                 token, config, raw, accounts, fetchedAt, req>>

\* configurations with a cache TTL of one millisecond and with the default
TTLConfigs == {[validConfig EXCEPT !.publicKeyCacheTTL = NumV(1)], validConfig}

NextTTL ==
  \/ \E c \in CallIds : getPublicKey(c)
  \/ \E c \in CallIds : refreshPublicKey(c)
  \/ \E f \in FetchIds, o \in AcceptedOutcomes : AttemptReturns(f, o)
  \/ \E c \in CallIds : InitiatorContinues(c)
  \/ \E c \in CallIds : JoinedCompletes(c)
  \/ Tick

\* PublicKeyCache of a client configured with publicKeyCacheTTL, over time
SpecTTL == InitOf({NoToken}, TTLConfigs) /\ [][NextTTL]_vars

\* the cached key is older than the configured TTL
Stale ==
  /\ publicKey # Null
  /\ "num" \in DOMAIN config.publicKeyCacheTTL
  /\ now - fetchedAt > config.publicKeyCacheTTL.num

\* C27: with a finite publicKeyCacheTTL a getPublicKey() call made when the
\* cached key is older than the TTL starts a new fetch; with the default
\* (Infinity) a cached key is served until refreshPublicKey().
C27_StaleKeyRefetched ==
  [][\A c \in CallIds :
       Called(c, "get") =>
         /\ Stale => NumFetches' = NumFetches + 1
         /\ (publicKey # Null /\ config.publicKeyCacheTTL = Infinity) =>
               /\ NumFetches' = NumFetches
               /\ call'[c].res.key = publicKey
    ]_vars

(* -------------------------------- client ------------------------------- *)

\* the configuration objects a client is constructed with
RawConfigs ==
  [authBackendUrl : {StrV("http://localhost:8080"), StrV("not-a-url"),
                     StrV("ftp://example.com"), Undefined},
   authFrontendUrl : {StrV("https://auth.enhancer.at"), Undefined},
   serviceId : {StrV("svc"), StrV(""), Undefined},
   serviceSecret : {StrV("secret_abc123"), StrV(""), Undefined},
   timeout : {Undefined, NumV(5000), NumV(0), StrV("5000")},
   publicKeyCacheTTL : {Undefined, NumV(3600000), Infinity},
   enableDebugLogs : {Undefined, BoolV(TRUE), StrV("true")}]

\* the Error validateConfig throws, as this.config never comes to exist
ConfigError(issues) == [typ |-> "error", issues |-> issues]

Constructed == "serviceId" \in DOMAIN config

\* new EnhancerAuthClient(raw), line 48: this.config = validateConfig(config)
construct ==
  /\ config = Undefined
  /\ LET v == validateConfig(raw) IN
     config' = IF v.ok THEN v.value ELSE ConfigError(v.issues)
  /\ UNCHANGED <<publicKey, fetchPromise, fetch, call, keySrc, returned, racing,
                 token, raw, accounts, now, fetchedAt, req>>

\* `${serviceId}:${serviceSecret}`: an undefined secret reads "undefined"
Credentials(id, secret) ==
  <<id.str, ":", IF secret.typ = "undefined" THEN "undefined" ELSE secret.str>>

\* createBasicAuthHeader, lines 155-159
createBasicAuthHeader(id, secret) == <<"Basic", [base64 |-> Credentials(id, secret)]>>

AccountIds == {"acc-1", "acc-2"}

\* getConnectedAccounts(accountId), lines 215-219, up to the await: the GET
\* request goes out with the header withBasicAuth builds
getConnectedAccounts(accountId) ==
  /\ Constructed
  /\ accounts.pc # "awaiting"
  /\ accounts.n < MaxAccountCalls
  /\ accounts' =
       [pc |-> "awaiting", n |-> accounts.n + 1,
        url |-> <<"/api/service/accounts/", accountId, "/connected-accounts">>,
        Authorization |-> createBasicAuthHeader(config.serviceId, config.serviceSecret),
        res |-> [tag |-> "none"]]
  /\ UNCHANGED <<publicKey, fetchPromise, fetch, call, keySrc, returned, racing,
                 token, raw, config, now, fetchedAt, req>>

\* what the accounts endpoint can answer
AccountsOutcomes == {"ok", "timeout", "http401", "http500"}

\* transformAxiosError for a request that carries a Basic header
transformServiceError(err) ==
  IF err = "http401" THEN "ServiceAuthError" ELSE transformAxiosError(err)

\* lines 216-221: the request comes back; response.data is returned, an
\* error of the interceptor is passed on
AccountsReturn(o) ==
  /\ accounts.pc = "awaiting"
  /\ accounts' =
       [accounts EXCEPT
          !.pc = "done",
          !.res = IF o = "ok" THEN [tag |-> "accounts"]
                  ELSE [tag |-> transformServiceError(o)]]
  /\ UNCHANGED <<publicKey, fetchPromise, fetch, call, keySrc, returned, racing,
                 token, raw, config, now, fetchedAt, req>>

NextClient ==
  \/ construct
  \/ \E a \in AccountIds : getConnectedAccounts(a)
  \/ \E o \in AccountsOutcomes : AccountsReturn(o)

InitClient ==
  /\ raw \in RawConfigs
  /\ config = Undefined
  /\ accounts = NoAccounts
  /\ token = NoToken
  /\ publicKey = Null
  /\ fetchPromise = NoFetch
  /\ fetch = [f \in FetchIds |-> NoFetchRec]
  /\ call = [c \in CallIds |-> NoCall]
  /\ keySrc = NoFetch
  /\ returned = {}
  /\ racing = 0
  /\ now = 0
  /\ fetchedAt = 0
  /\ req = NoRequest

\* EnhancerAuthClient: construction from a configuration object and the
\* service-to-service call
SpecClient == InitClient /\ [][NextClient]_vars

\* C28: getConnectedAccounts() on a client configured without serviceSecret
\* sends no request and throws an error saying that serviceSecret is
\* required; it never returns accounts.
C28_SecretRequired ==
  (Constructed /\ config.serviceSecret = Undefined /\ accounts.pc # "idle") =>
    /\ accounts.pc = "done"
    /\ accounts.Authorization = <<>>
    /\ accounts.res.tag = "Error: serviceSecret is required"

\* C29: validateConfig throws an error that names serviceSecret when the
\* configuration's serviceSecret is the empty string.
C29_EmptySecretRejected ==
  (config # Undefined /\ raw.serviceSecret = StrV("")) =>
    /\ ~Constructed
    /\ \E i \in config.issues : i.path = "serviceSecret"

\* a valid configuration: both URLs http(s), a non-empty serviceId, the
\* optional fields absent or of their type, the numbers positive
ValidRaw(c) ==
  /\ c.authBackendUrl \in {StrV("http://localhost:8080"), StrV("https://auth.enhancer.at")}
  /\ c.authFrontendUrl \in {StrV("http://localhost:8080"), StrV("https://auth.enhancer.at")}
  /\ c.serviceId.typ = "string" /\ c.serviceId # StrV("")
  /\ c.serviceSecret.typ \in {"string", "undefined"}
  /\ \A n \in {c.timeout, c.publicKeyCacheTTL} :
       \/ n.typ = "undefined"
       \/ n = Infinity
       \/ n.typ = "number" /\ n.num > 0
  /\ c.enableDebugLogs.typ \in {"boolean", "undefined"}

\* C30: validateConfig on a valid configuration returns authBackendUrl,
\* authFrontendUrl, serviceId and serviceSecret unchanged, fills an omitted
\* timeout, publicKeyCacheTTL and enableDebugLogs with 10000, Infinity and
\* false, and keeps a supplied value of these three.
C30_ValidatedConfig ==
  (config # Undefined /\ ValidRaw(raw)) =>
    /\ Constructed
    /\ DOMAIN config = ConfigFields
    /\ \A x \in {"authBackendUrl", "authFrontendUrl", "serviceId", "serviceSecret"} :
         config[x] = raw[x]
    /\ config.timeout = IF raw.timeout = Undefined THEN NumV(10000) ELSE raw.timeout
    /\ config.publicKeyCacheTTL =
         IF raw.publicKeyCacheTTL = Undefined THEN Infinity ELSE raw.publicKeyCacheTTL
    /\ config.enableDebugLogs =
         IF raw.enableDebugLogs = Undefined THEN BoolV(FALSE) ELSE raw.enableDebugLogs

C30_Witness ==
  /\ ValidRaw(raw)
  /\ raw.timeout = NumV(5000) /\ raw.publicKeyCacheTTL = Undefined
  /\ raw.enableDebugLogs = BoolV(TRUE) /\ raw.serviceSecret = Undefined
  /\ Constructed
  /\ config.timeout = NumV(5000) /\ config.publicKeyCacheTTL = Infinity

(* ------------------------------ middleware ----------------------------- *)

Proceed == [sent |-> FALSE, status |-> 0, code |-> "none"]

Response(status, code) == [sent |-> TRUE, status |-> status, code |-> code]

\* Express requireAuth, lines 90-139, for a request that carries a bearer
\* token and names no required scopes: what the handler does with the
\* outcome res of client.verifyToken(token)
requireAuth(res) ==
  IF res.tag = "decoded" THEN Proceed
  ELSE IF res.tag = "TokenExpiredError" THEN Response(401, "TOKEN_EXPIRED")
  ELSE IF res.tag = "InvalidTokenError" THEN Response(401, "INVALID_TOKEN")
  ELSE Response(500, "none")

\* Fastify enhancerAuth, lines 131-182, likewise
enhancerAuth(res) ==
  IF res.tag = "decoded" THEN Proceed
  ELSE IF res.tag = "TokenExpiredError" THEN Response(401, "TOKEN_EXPIRED")
  ELSE IF res.tag = "InvalidTokenError" THEN Response(401, "INVALID_TOKEN")
  ELSE Response(500, "none")

\* the responses of the two middlewares to the outcome of verify() call c
Responses(c) == {requireAuth(call[c].res), enhancerAuth(call[c].res)}

\* C26: at the middleware boundary a verification that fails because the
\* key endpoint could not be reached yields a 503 response, and one that
\* fails with TokenExpired or InvalidToken for another reason yields 401.
C26_MiddlewareStatus ==
  \A c \in Calls :
    (call[c].kind = "verify" /\ call[c].pc = "done" /\ call[c].res.tag # "decoded") =>
      \A r \in Responses(c) :
        /\ r.sent
        /\ IF call[c].f # NoFetch /\ fetch[call[c].f].st = "rejected"
             THEN r.status = 503
             ELSE r.status = 401

(* ------------------------------- progress ------------------------------ *)

\* every HTTP attempt comes back, every backoff timer fires, and the event
\* loop runs every continuation that is ready
\* the transport of the progress specification: the endpoint serves one key
\* or the request times out
LiveOutcomes == {o \in PlainOutcomes : o.body \in {"k1", "missing"}}

NextLive ==
  \/ \E c \in CallIds : getPublicKey(c)
  \/ \E c \in CallIds : refreshPublicKey(c)
  \/ \E f \in FetchIds, o \in LiveOutcomes : FailsFirst(f, o) /\ AttemptReturns(f, o)
  \/ \E f \in FetchIds : TimerFires(f)
  \/ \E c \in CallIds : InitiatorContinues(c)
  \/ \E c \in CallIds : JoinedCompletes(c)

Fairness ==
  /\ \A f \in FetchIds :
       /\ WF_vars(\E o \in LiveOutcomes : FailsFirst(f, o) /\ AttemptReturns(f, o))
       /\ WF_vars(TimerFires(f))
  /\ \A c \in CallIds :
       /\ WF_vars(InitiatorContinues(c))
       /\ WF_vars(JoinedCompletes(c))

\* PublicKeyCache under concurrent calls, in an environment that answers
SpecLive == Init /\ [][NextLive]_vars /\ Fairness

\* C31: every getPublicKey() and refreshPublicKey() call that was made
\* eventually completes, with a key or with a NetworkError, whether it
\* started the fetch or joined it, and whether or not refreshPublicKey() is
\* called while it waits.
C31_CallsComplete ==
  \A c \in CallIds :
    (call[c].kind \in {"get", "refresh"})
      ~> (call[c].pc = "done" /\ call[c].res.tag \in {"key", "NetworkError"})

C31_Witness ==
  \E c \in CallIds :
    /\ call[c].kind = "get" /\ call[c].pc = "done" /\ ~call[c].started
    /\ call[c].f # NoFetch /\ fetch[call[c].f].superseded
    /\ call[c].res.tag = "NetworkError"

(* --------------------------- shared key cache -------------------------- *)

\* tokens signed with either key the endpoint may serve, and an expired one
SharedTokens ==
  {Jws(GoodClaims("k1")), Jws(GoodClaims("k2")),
   Jws([GoodClaims("k1") EXCEPT !.exp = "past"])}

\* verify() calls, of one JwtVerifier or of several that were given the same
\* PublicKeyCache, and refreshPublicKey() calls on that cache
NextShared ==
  \/ \E c \in CallIds : verify(c)
  \/ \E c \in CallIds : refreshPublicKey(c)
  \/ \E f \in FetchIds, o \in PlainOutcomes : FailsFirst(f, o) /\ AttemptReturns(f, o)
  \/ \E f \in FetchIds : TimerFires(f)
  \/ \E c \in CallIds : InitiatorContinues(c)
  \/ \E c \in CallIds : JoinedCompletes(c)

SpecShared == InitWith(SharedTokens) /\ [][NextShared]_vars

\* the verify() calls made so far
VerifyCalls == {c \in Calls : call[c].kind = "verify"}

\* several verify() calls have started and no fetch has come back yet
HerdWaiting == Cardinality(VerifyCalls) >= 2 /\ \A f \in FetchIds : ~Settled(f)

\* one fetch sequence runs and every verify() call waits on it
OneFetchForAll ==
  /\ NumFetches = 1 /\ Running(1)
  /\ \A c \in VerifyCalls : call[c].f = 1 /\ call[c].pc \in {"awaitOwn", "joined"}

\* the verify() calls that waited on the first fetch sequence have verified
\* the token against the key it returned
VerifiedAgainstFirst ==
  \A c \in VerifyCalls :
    (call[c].pc = "done" /\ call[c].f = 1 /\ fetch[1].st = "resolved") =>
      /\ call[c].res.key = fetch[1].value
      /\ call[c].res = VerifyAfterKey(token, Result("key", fetch[1].value, "none"))

Header(first7, rest) == [typ |-> "string", first7 |-> first7, rest |-> rest]

Headers(tok) ==
  {Undefined, Header("", EmptyString), Header("Bearer", EmptyString),
   Header("Bearer ", EmptyString), Header("Bearer ", tok),
   Header("bearer ", tok), Header("Basic d", tok)}

\* options.requiredScopes: absent or empty (no scope required), or scopes
ScopeNames == {"USER", "ADMIN"}

\* the elements of an array-valued scope claim
Elements(scope) ==
  IF scope = "strings" THEN {"USER"}
  ELSE IF scope = "mixed" THEN {"USER", "#42"}
  ELSE {}

Frameworks == {"express", "fastify"}

\* a request as a handler receives it
IncomingRequests(tok) ==
  [fw : Frameworks, pc : {"received"}, authorization : Headers(tok),
   requiredScopes : SUBSET ScopeNames, res : {NoResult}, sent : {<<>>},
   nexts : {0}, user : {Undefined}]

\* !authHeader
MissingHeader(h) == h = Undefined \/ (h.first7 = "" /\ h.rest = EmptyString)

\* authHeader.startsWith('Bearer ')
IsBearer(h) == h.first7 = "Bearer "

\* authHeader.slice(7)
BearerToken(h) == h.rest

\* res.status(status).json(...); return
Send(r, status, code) ==
  [r EXCEPT !.sent = Append(@, Response(status, code)), !.pc = "ended"]

\* the handler up to the await of client.verifyToken(token)
Received(r) ==
  IF MissingHeader(r.authorization) THEN Send(r, 401, "none")
  ELSE IF ~IsBearer(r.authorization) THEN Send(r, 401, "none")
  ELSE IF Falsy(BearerToken(r.authorization)) THEN Send(r, 401, "none")
  ELSE [r EXCEPT !.pc = "verifying"]

\* EnhancerAuthClient.verifyToken(token) once the key cache has answered got
verifyToken(tok, got) ==
  IF PreCheck(tok) # "none"
    THEN Result("InvalidTokenError", Null, PreCheck(tok))
    ELSE VerifyAfterKey(tok, got)

\* what the key cache may answer
KeyResults ==
  {Result("key", k, "none") : k \in Keys} \cup {NetworkError(maxRetries, "timeout")}

hasAllScopesAny(required, userScopes) ==
  required = {} \/ \E scope \in required : scope \in userScopes

\* requiredScopes.every(scope => userScopes.includes(scope))
hasAllScopes(required, userScopes) == \A scope \in required : scope \in userScopes

ForbiddenNoReturn(r) ==
  [r EXCEPT !.sent = Append(@, Response(403, "none")), !.nexts = @ + 1,
            !.pc = "ended"]

\* 403 Forbidden; return
Forbidden(r) == Send(r, 403, "none")

\* the handler after the await: res is what client.verifyToken(token)
\* returned or threw, onError the response of the catch block
Resumed(r, res, onError) ==
  LET r1 == [r EXCEPT !.res = res] IN
  IF res.tag = "decoded" THEN
    IF /\ r.requiredScopes # {}
       /\ ~hasAllScopes(r.requiredScopes, Elements(res.decoded.scope))
      THEN Forbidden(r1)
      ELSE [r1 EXCEPT !.user = res.decoded, !.nexts = @ + 1, !.pc = "ended"]
  ELSE Send(r1, onError.status, onError.code)

\* a handler step changes the request only
HandlerFrame ==
  UNCHANGED <<publicKey, fetchPromise, fetch, call, keySrc, returned, racing,
              token, config, raw, accounts, now, fetchedAt>>

\* Express requireAuth: the handler runs to its first response or to the await
requireAuthReceives ==
  /\ req.pc = "received" /\ req.fw = "express"
  /\ req' = Received(req)
  /\ HandlerFrame

\* Express requireAuth: the handler resumes with the outcome of verifyToken
requireAuthResumes(got) ==
  /\ req.pc = "verifying" /\ req.fw = "express"
  /\ LET res == verifyToken(BearerToken(req.authorization), got) IN
       req' = Resumed(req, res, requireAuth(res))
  /\ HandlerFrame

\* Fastify enhancerAuth: likewise
enhancerAuthReceives ==
  /\ req.pc = "received" /\ req.fw = "fastify"
  /\ req' = Received(req)
  /\ HandlerFrame

enhancerAuthResumes(got) ==
  /\ req.pc = "verifying" /\ req.fw = "fastify"
  /\ LET res == verifyToken(BearerToken(req.authorization), got) IN
       req' = Resumed(req, res, enhancerAuth(res))
  /\ HandlerFrame

\* the bearer tokens of the requests
MiddlewareTokens ==
  {Jws(GoodClaims("k1")), Jws([GoodClaims("k1") EXCEPT !.scope = "mixed"]),
   Jws([GoodClaims("k1") EXCEPT !.exp = "past"]),
   Jws([GoodClaims("k1") EXCEPT !.signer = "other"]),
   Jws([GoodClaims("k2") EXCEPT !.aud = "other"]), NotAJwt}

\* a request that carries a token carries the token of the behaviour
InitMiddleware ==
  /\ InitFor(MiddlewareTokens, {validConfig},
             UNION {IncomingRequests(tok) : tok \in MiddlewareTokens})
  /\ req \in IncomingRequests(token)

NextMiddleware ==
  \/ requireAuthReceives
  \/ \E got \in KeyResults : requireAuthResumes(got)
  \/ enhancerAuthReceives
  \/ \E got \in KeyResults : enhancerAuthResumes(got)

\* one request through the Express or the Fastify middleware
SpecMiddleware == InitMiddleware /\ [][NextMiddleware]_vars

\* the request went on to the route: next()/done() was called
Proceeded == req.pc # "none" /\ req.nexts > 0

\* the decoded token was attached as request.user
Attached == req.pc # "none" /\ req.user # Undefined

\* C33: requireAuth and enhancerAuth call next()/done() and attach the
\* decoded token as request.user only if the Authorization header is
\* 'Bearer ' followed by a non-empty token, verifyToken succeeded on that
\* token, and every required scope is in the decoded token's scope; in
\* every other case they neither call next()/done() nor attach user.
C33_ProceedsOnlyIfAuthorized ==
  (Proceeded \/ Attached) =>
    /\ req.authorization # Undefined
    /\ req.authorization.first7 = "Bearer "
    /\ req.authorization.rest # EmptyString
    /\ req.res.tag = "decoded"
    /\ \E k \in Keys :
         req.res = VerifyAfterKey(req.authorization.rest, Result("key", k, "none"))
    /\ req.res.decoded = DecodedToken(req.authorization.rest.claims)
    /\ req.requiredScopes \subseteq Elements(req.res.decoded.scope)
    /\ req.user = req.res.decoded
    /\ req.nexts = 1 /\ req.sent = <<>>

C33_Witness ==
  /\ req.pc = "ended" /\ req.fw = "fastify"
  /\ req.requiredScopes = {"USER"}
  /\ req.nexts = 1 /\ req.user = DecodedToken(GoodClaims("k1"))

\* the handler has returned
Ended == req.pc = "ended"

\* C38: each invocation of the requireAuth or the enhancerAuth handler ends
\* in exactly one outcome: it sends exactly one response (401, 403 or 500)
\* and does not call next()/done(), or it calls next()/done() exactly once
\* and sends no response.
C38_ExactlyOneOutcome ==
  /\ req.pc \in {"received", "verifying"} => (req.sent = <<>> /\ req.nexts = 0)
  /\ Ended =>
       \/ /\ Len(req.sent) = 1 /\ req.sent[1].sent
          /\ req.sent[1].status \in {401, 403, 500}
          /\ req.nexts = 0
       \/ req.nexts = 1 /\ req.sent = <<>>

C38_Witness ==
  /\ Ended /\ req.fw = "express" /\ req.res.tag = "decoded"
  /\ req.requiredScopes = {"USER", "ADMIN"}
  /\ Len(req.sent) = 1 /\ req.sent[1].status = 403 /\ req.nexts = 0

(* ------------------------ expiry and signature ------------------------- *)

\* the token's signature is valid under key
SignedBy(tok, key) == tok.claims.jws /\ key \in Keys /\ tok.claims.signer = key

\* C34: verify() fails with TokenExpired only for tokens whose signature is
\* valid under the key obtained from the cache; a token with an invalid
\* signature or signed by another key never yields TokenExpired, whatever
\* its exp claim.
C34_ExpiredOnlyIfSigned ==
  \A c \in Calls :
    (call[c].kind = "verify" /\ call[c].pc = "done"
       /\ call[c].res.tag = "TokenExpiredError") =>
      /\ SignedBy(token, call[c].res.key)
      /\ token.claims.exp = "past"

C34_Witness ==
  \E c \in Calls :
    /\ call[c].kind = "verify" /\ call[c].pc = "done"
    /\ token.claims.exp = "past" /\ token.claims.alg = "RS256"
    /\ call[c].res.key \in Keys /\ ~SignedBy(token, call[c].res.key)
    /\ call[c].res.tag = "InvalidTokenError"
    /\ call[c].res.err = "Invalid token signature"

(* ----------------------- refresh during a fetch ------------------------ *)

\* refreshPublicKey() was called while fetch sequence f was in flight
Superseded(f) == fetch[f].st # "none" /\ fetch[f].superseded

\* call c has received the outcome of the fetch sequence it awaited
ReceivedOwnOutcome(c) ==
  LET f == call[c].f IN
  /\ Settled(f)
  /\ IF fetch[f].st = "resolved"
       THEN call[c].res.tag = "key" /\ call[c].res.key = fetch[f].value
       ELSE /\ call[c].res.tag = "NetworkError"
            /\ call[c].res.err = fetch[f].lastError

\* C35: a refreshPublicKey() call made while a fetch is in flight does not
\* cancel that fetch: the fetch still runs to completion or exhaustion, and
\* every caller that was already awaiting it receives that fetch's outcome,
\* not the outcome of the fetch the refresh started.
C35_RefreshDoesNotCancel ==
  /\ [](\A c \in CallIds :
          (call[c].pc = "done" /\ call[c].f # NoFetch /\ Superseded(call[c].f)) =>
            ReceivedOwnOutcome(c))
  /\ [](\A c \in CallIds :
          (call[c].pc \in {"awaitOwn", "joined"} /\ Superseded(call[c].f)) =>
            (Running(call[c].f) \/ Settled(call[c].f)))
  /\ \A f \in FetchIds : Superseded(f) ~> Settled(f)

C35_Witness ==
  \E c, r \in CallIds :
    /\ call[c].kind = "get" /\ call[c].pc = "done" /\ ~call[c].started
    /\ call[r].kind = "refresh" /\ call[r].started /\ call[r].pc = "done"
    /\ call[c].f # NoFetch /\ call[r].f = call[c].f + 1
    /\ Superseded(call[c].f)
    /\ fetch[call[r].f].st = "resolved" /\ call[r].res.tag = "key"
    /\ fetch[call[c].f].st = "rejected" /\ call[c].res.tag = "NetworkError"
    /\ Len(fetch[call[c].f].log) = maxRetries

(* ------------------------- pending-fetch marker ------------------------ *)

\* fetch sequence f was started and has not completed: its requests and
\* backoffs go on, or it has settled and the finally of the call that
\* started it has not run yet
Pending(f) == Running(f) \/ (Settled(f) /\ ~fetch[f].cont)

\* C36: the pending-fetch marker is set if and only if a fetch sequence
\* started by the cache has not yet completed; in particular, whenever the
\* marker is clear and no key is cached no fetch is in flight, and the
\* completion of one fetch never clears the marker of a different fetch.
C36_MarkerIffPending ==
  /\ fetchPromise # NoFetch <=> \E f \in FetchIds : Pending(f)
  /\ (fetchPromise = NoFetch /\ publicKey = Null) => InFlight = {}
  /\ \A f \in FetchIds : (Running(f) /\ ~Superseded(f)) => fetchPromise = f

(* --------------------------- after a failure --------------------------- *)

\* getPublicKey() and refreshPublicKey() calls against an endpoint that may
\* time out on any attempt of any fetch sequence
NextAgain ==
  \/ \E c \in CallIds : getPublicKey(c)
  \/ \E c \in CallIds : refreshPublicKey(c)
  \/ \E f \in FetchIds, o \in LiveOutcomes : AttemptReturns(f, o)
  \/ \E f \in FetchIds : TimerFires(f)
  \/ \E c \in CallIds : InitiatorContinues(c)
  \/ \E c \in CallIds : JoinedCompletes(c)

SpecAgain == Init /\ [][NextAgain]_vars

\* fetch sequence f ended in NetworkError and the call that started it has
\* completed
FailedAndDone(f) == fetch[f].st = "rejected" /\ fetch[f].cont

\* the first fetch sequence has failed and every getPublicKey() call so far
\* was made before it ended
FirstAfterFailure ==
  /\ FailedAndDone(1)
  /\ \A c \in Calls : call[c].kind = "get" => call[c].f = 1

\* call c has started a fetch sequence of its own, at its first attempt
StartsFresh(c) ==
  LET f == call'[c].f IN
  /\ call'[c].started /\ call'[c].pc = "awaitOwn"
  /\ f = NumFetches + 1
  /\ fetchPromise' = f
  /\ fetch'[f] = [NoFetchRec EXCEPT !.st = "request", !.attempt = 1]

\* with no refresh, a failed sequence leaves neither a key nor a marker
NothingRemembered ==
  (NumRefresh = 0 /\ NumFetches > 0 /\ FailedAndDone(NumFetches)) =>
    publicKey = Null /\ fetchPromise = NoFetch

\* every sequence has maxRetries attempts before it fails, and the call that
\* started a sequence returns the key the sequence obtained
BudgetAndKey ==
  /\ \A f \in FetchIds :
       /\ fetch[f].st = "rejected" => Len(fetch[f].log) = maxRetries
       /\ Len(fetch[f].log) <= maxRetries
  /\ \A c \in Calls :
       (call[c].kind = "get" /\ call[c].started /\ call[c].pc = "done"
          /\ fetch[call[c].f].st = "resolved") =>
         call[c].res = Result("key", fetch[call[c].f].value, "none")

\* C37 (as stated): the first getPublicKey() call made after a fetch
\* sequence ended in NetworkFailure starts a new fetch sequence with a
\* fresh budget of 3 attempts, and returns the key if that sequence succeeds.
C37_FirstCallStartsFetch ==
  [][/\ \A c \in CallIds : (getPublicKey(c) /\ FirstAfterFailure) => StartsFresh(c)
     /\ BudgetAndKey']_vars

\* C37 (amended): the same for a call made while no key is cached and no
\* fetch is pending, which is the case after every failure when
\* refreshPublicKey() has not been called.
C37_FreshFetchAfterFailure ==
  [][/\ \A c \in CallIds :
          (/\ getPublicKey(c)
           /\ \E f \in FetchIds : FailedAndDone(f)
           /\ publicKey = Null /\ fetchPromise = NoFetch) => StartsFresh(c)
     /\ NothingRemembered'
     /\ BudgetAndKey']_vars

C37_Witness ==
  /\ NumRefresh = 0
  /\ FailedAndDone(1) /\ fetch[1].log = <<"timeout", "timeout", "timeout">>
  /\ call[1].res.tag = "NetworkError"
  /\ call[2].kind = "get" /\ call[2].started /\ call[2].f = 2
  /\ fetch[2].log = <<"timeout", "timeout", "ok">>
  /\ call[2].pc = "done" /\ call[2].res = Result("key", "k1", "none")

====
